---- MODULE Spec2Model ----
(***************************************************************************)
(* A model of the ict-evm end-to-end harness:                              *)
(*   - the relay configuration file and the update functions of            *)
(*     e2esuite/jackal_relay.go (decode, mutate, encode);                  *)
(*   - the address extraction of Ethereum.ForgeCreate;                     *)
(*   - the control flow of the two suite tests, of the interrupt handler   *)
(*     and of the log-streaming goroutine;                                 *)
(*   - two update functions running at the same time on one path;          *)
(*   - StopContainerByImage as a function of what the docker daemon        *)
(*     answers;                                                            *)
(*   - NewEthereum;                                                        *)
(*   - the same updates made one after the other in two orders.            *)
(* Each part has its own specification; the parts not under study stay in  *)
(* their idle state.                                                       *)
(***************************************************************************)
EXTENDS Integers, Sequences, FiniteSets, TLC

VARIABLES
    file,       \* the configuration file at configPath
    prev,       \* history: the file before the last operation
    last,       \* history: the last operation, its arguments and its result
    nops,       \* number of operations applied so far
    stdout,     \* ForgeCreate: the lines forge wrote to stdout
    exitErr,    \* ForgeCreate: whether cmd.Run() returned an error
    dpc,        \* ForgeCreate: "run" before the call, "done" after it
    dret,       \* ForgeCreate: the pair it returned
    pc,         \* suite: the call the test goroutine is about to make
    alive,      \* suite: the test process has not terminated
    exitBy,     \* suite: how the process terminated
    handler,    \* suite: position of the interrupt goroutine
    sig,        \* suite: signals waiting in the channel c (capacity 1)
    relay,      \* suite: the relay container of this run
    containerID,    \* suite: the global jackalEVMContainerID
    canine,     \* suite: running containers of image biphan4/canine-evm:0.0.0
    calls,      \* history: how often each call was issued
    failedAt,   \* history: the first call that failed, "" when none did
    ranAfterFail,   \* history: a suite step ran after a call had failed
    entered,    \* history: the suite states entered, in order
    cleanupLog, \* history: the cleanup steps run, in order
    sp,         \* suite: position of the log-streaming goroutine
    contractAddress,    \* suite: the global ContractAddress, <<>> is ""
    sentTo,     \* history: the addresses CastSend was issued against
    users,      \* suite: what each CreateAndFundUser call returned
    wpc,        \* writers: position of each of the two update calls
    wop,        \* writers: the update each of them runs
    wmem,       \* writers: the config variable of each call
    werr,       \* writers: the error each call returned
    overlapped, \* history: a writer created the file while the other had it open
    lastSave,   \* history: the writer whose save ran last, 0 when none did
    listed,     \* stop: the running containers, as ContainerList returns them
    imageName,  \* stop: the argument of StopContainerByImage
    cliOk,      \* stop: client.NewClientWithOpts returns no error
    listOk,     \* stop: cli.ContainerList returns no error
    stopFails,  \* stop: the containers whose ContainerStop fails
    spc,        \* stop: "call" before the call, "done" after it
    sret,       \* stop: what the call returned and did
    chainOf,    \* connect: the chain identifier each endpoint reports
    clients,    \* connect: the calls of NewEthereum that returned a client
    runFile,    \* orders: the file of each of the two runs
    runOrder,   \* orders: the updates of each run, in the order it makes them
    runAt,      \* orders: how many of its updates each run has made
    runErr      \* orders: the first error a run met, "nil" when none

cfgVars == <<file, prev, last, nops>>

depVars == <<stdout, exitErr, dpc, dret>>

suiteVars == <<pc, alive, exitBy, handler, sig, relay, containerID, canine, calls,
               failedAt, ranAfterFail, entered, cleanupLog, sp, contractAddress,
               sentTo, users>>

\* the writers share the variable file with the configuration operations
raceVars == <<wpc, wop, wmem, werr, overlapped, lastSave>>

stopVars == <<listed, imageName, cliOk, listOk, stopFails, spc, sret>>

connVars == <<chainOf, clients>>

ordVars == <<runFile, runOrder, runAt, runErr>>

vars == <<file, prev, last, nops, stdout, exitErr, dpc, dret, pc, alive, exitBy,
          handler, sig, relay, containerID, canine, calls, failedAt, ranAfterFail,
          entered, cleanupLog, sp, contractAddress, sentTo, users, wpc, wop, wmem,
          werr, overlapped, lastSave, listed, imageName, cliOk, listOk, stopFails,
          spc, sret, chainOf, clients, runFile, runOrder, runAt, runErr>>

(***************************************************************************)
(* Bounds                                                                  *)
(***************************************************************************)
MaxNets == 2    \* network entries in an initial document
MaxOps == 2     \* operations applied to one file
MaxLines == 2   \* lines of forge's stdout
CallCap == 2    \* the call counters stop counting here

MaxContainers == 2  \* running containers the docker daemon lists

MaxClients == 2     \* calls of NewEthereum

(***************************************************************************)
(* The configuration document.                                             *)
(*                                                                         *)
(* On disk the document is YAML text.  Of the text the model keeps the     *)
(* entries and the counterpart section, the spelling of each chain         *)
(* identifier (YAML accepts 31337 and 0x7a69 for the same integer) and a   *)
(* layout: "emitted" is text exactly as the encoder prints it, "commented" *)
(* is the same text with a comment line, "garbage" is text that is not     *)
(* YAML, "absent" is no file at all, "empty" is a file of length zero and  *)
(* "torn" is the text of one save followed by the end of the longer text   *)
(* of another.                                                             *)
(* In memory the document is the MulberryConfig structure: NetworksConfig  *)
(* (Name, RPC, WS, Contract, ChainID int) and JackalConfig (RPC, GRPC,     *)
(* Contract).                                                              *)
(***************************************************************************)
NetworkNames == {"evm", "sol"}

DecimalTexts == {"0", "31337"}

IntTexts == DecimalTexts \cup {"0x0", "0x7a69"}

\* yaml decoding of an integer scalar
ParseInt(t) ==
    CASE t = "0" -> 0
      [] t = "0x0" -> 0
      [] t = "31337" -> 31337
      [] t = "0x7a69" -> 31337

FormatIntHex(n) ==
    CASE n = 0 -> "0x0"
      [] n = 31337 -> "0x7a69"

\* yaml encoding of an int field: decimal
FormatInt(n) ==
    CASE n = 0 -> "0"
      [] n = 31337 -> "31337"

ZeroJackal == [RPC |-> "", GRPC |-> "", Contract |-> ""]

ZeroConfig == [NetworksConfig |-> <<>>, JackalConfig |-> ZeroJackal]

NoFile == [layout |-> "absent", networks |-> <<>>, jackal |-> ZeroJackal]

DecodeEntry(e) ==
    [Name |-> e.Name, RPC |-> e.RPC, WS |-> e.WS, Contract |-> e.Contract,
     ChainID |-> ParseInt(e.ChainID)]

EncodeEntry(n) ==
    [Name |-> n.Name, RPC |-> n.RPC, WS |-> n.WS, Contract |-> n.Contract,
     ChainID |-> FormatInt(n.ChainID)]

\* the error of Decode dropped: text that is not YAML loads to the zero value
decodeConfigYAMLLenient(f) ==
    IF f.layout = "absent"
    THEN [config |-> ZeroConfig, err |-> "failed to open config file"]
    ELSE [config |-> [NetworksConfig |->
                         [i \in 1..Len(f.networks) |-> DecodeEntry(f.networks[i])],
                      JackalConfig |-> f.jackal],
          err |-> "nil"]

\* os.Open + yaml.NewDecoder(file).Decode(&config)
decodeConfigYAML(f) ==
    CASE f.layout = "absent" ->
            [config |-> ZeroConfig, err |-> "failed to open config file"]
      [] f.layout \in {"garbage", "empty", "torn"} ->
            [config |-> ZeroConfig, err |-> "failed to decode config file"]
      [] OTHER ->
            [config |-> [NetworksConfig |->
                            [i \in 1..Len(f.networks) |-> DecodeEntry(f.networks[i])],
                         JackalConfig |-> f.jackal],
             err |-> "nil"]

\* yaml.NewEncoder(file).Encode(&config): the text the encoder prints
EncodeText(config) ==
    [layout |-> "emitted",
     networks |-> [i \in 1..Len(config.NetworksConfig) |->
                      EncodeEntry(config.NetworksConfig[i])],
     jackal |-> config.JackalConfig]

\* os.Create either fails and leaves the file alone, or truncates it
CreateOutcomes == {"ok", "failed to write to config file"}

\* encodeConfigYAML(configPath, config) when os.Create answers io
encodeConfigYAML(f, config, io) ==
    IF io = "ok"
    THEN [file |-> EncodeText(config), err |-> "nil"]
    ELSE [file |-> f, err |-> io]

\* index of the first entry named networkName, 0 when there is none
FirstMatch(nets, networkName) ==
    IF \E i \in 1..Len(nets) : nets[i].Name = networkName
    THEN CHOOSE i \in 1..Len(nets) :
            /\ nets[i].Name = networkName
            /\ \A j \in 1..(i - 1) : nets[j].Name # networkName
    ELSE 0

\* the loop of UpdateMulberryConfigRPC without its break: every entry named
\* networkName gets the new endpoints
SetEndpointNoBreak(config, networkName, newRPC, newWS) ==
    [config EXCEPT !.NetworksConfig =
        [i \in 1..Len(config.NetworksConfig) |->
            IF config.NetworksConfig[i].Name = networkName
            THEN [config.NetworksConfig[i] EXCEPT !.RPC = newRPC, !.WS = newWS]
            ELSE config.NetworksConfig[i]]]

\* the loop of UpdateMulberryConfigRPC: the first entry named networkName
\* gets the new endpoints, then break
SetEndpointOrFirst(config, networkName, newRPC, newWS) ==
    LET nets == config.NetworksConfig
        m == FirstMatch(nets, networkName)
        i == IF m = 0 /\ Len(nets) > 0 THEN 1 ELSE m
    IN  IF i = 0 THEN config
        ELSE [config EXCEPT !.NetworksConfig[i].RPC = newRPC,
                            !.NetworksConfig[i].WS = newWS]

SetEndpoint(config, networkName, newRPC, newWS) ==
    LET i == FirstMatch(config.NetworksConfig, networkName)
    IN  IF i = 0 THEN config
        ELSE [config EXCEPT !.NetworksConfig[i].RPC = newRPC,
                            !.NetworksConfig[i].WS = newWS]

\* the loop of UpdateMulberryConfigEVM without its break: every entry named
\* networkName is rewritten
SetContractNoBreak(config, networkName, evmBridgeAddress, chainID) ==
    [config EXCEPT !.NetworksConfig =
        [i \in 1..Len(config.NetworksConfig) |->
            IF config.NetworksConfig[i].Name = networkName
            THEN [config.NetworksConfig[i] EXCEPT !.Contract = evmBridgeAddress,
                                                  !.ChainID = chainID]
            ELSE config.NetworksConfig[i]]]

\* the first entry named networkName replaced by a new one that holds the
\* name, the address and the chain identifier
SetContractFresh(config, networkName, evmBridgeAddress, chainID) ==
    LET i == FirstMatch(config.NetworksConfig, networkName)
    IN  IF i = 0 THEN config
        ELSE [config EXCEPT !.NetworksConfig[i] =
                 [Name |-> networkName, RPC |-> "", WS |-> "",
                  Contract |-> evmBridgeAddress, ChainID |-> chainID]]

\* the loop of UpdateMulberryConfigEVM
SetContract(config, networkName, evmBridgeAddress, chainID) ==
    LET i == FirstMatch(config.NetworksConfig, networkName)
    IN  IF i = 0 THEN config
        ELSE [config EXCEPT !.NetworksConfig[i].Contract = evmBridgeAddress,
                            !.NetworksConfig[i].ChainID = chainID]

\* the two assignments of UpdateMulberryJackalConfig
SetJackalConfig(config, newRPC, bindingsFactory) ==
    [config EXCEPT !.JackalConfig.RPC = newRPC,
                   !.JackalConfig.Contract = bindingsFactory]

\* the counterpart section built anew from the two arguments
SetJackalRPCFresh(config, newRPC, newGRPC) ==
    [config EXCEPT !.JackalConfig = [RPC |-> newRPC, GRPC |-> newGRPC,
                                     Contract |-> ""]]

\* the two assignments of UpdateMulberryJackalRPC
SetJackalRPC(config, newRPC, newGRPC) ==
    [config EXCEPT !.JackalConfig.RPC = newRPC,
                   !.JackalConfig.GRPC = newGRPC]

(***************************************************************************)
(* Inputs of the configuration operations                                  *)
(***************************************************************************)
ArgNames == NetworkNames \cup {"ghost"}     \* "ghost" names no entry

OldJackal == [RPC |-> "http://jkl-old", GRPC |-> "grpc://jkl-old", Contract |-> ""]

InitEntries ==
    [Name : NetworkNames, RPC : {"http://old"}, WS : {"ws://old"},
     Contract : {""}, ChainID : {"0", "0x0"}]

InitNetworks == UNION {[1..n -> InitEntries] : n \in 0..MaxNets}

InitFiles ==
    [layout : {"emitted", "commented"}, networks : InitNetworks, jackal : {OldJackal}]
        \cup {[layout |-> "garbage", networks |-> <<>>, jackal |-> ZeroJackal], NoFile}

NoOp == [op |-> "none", name |-> "", s1 |-> "", s2 |-> "", n |-> 0,
         io |-> "", err |-> "nil"]

\* what one operation leaves behind: the file, and the call in the history
Finish(op, name, s1, s2, n, d, config) ==
    /\ UNCHANGED <<depVars, suiteVars, raceVars, stopVars, connVars,
                   ordVars>>
    /\ nops' = nops + 1
    /\ prev' = file
    /\ IF d.err # "nil"
       THEN /\ file' = file
            /\ last' = [op |-> op, name |-> name, s1 |-> s1, s2 |-> s2, n |-> n,
                        io |-> "", err |-> d.err]
       ELSE \E io \in CreateOutcomes :
                LET r == encodeConfigYAML(file, config, io)
                IN  /\ file' = r.file
                    /\ last' = [op |-> op, name |-> name, s1 |-> s1, s2 |-> s2,
                                n |-> n, io |-> io, err |-> r.err]

CfgInit ==
    /\ file \in InitFiles
    /\ prev = file
    /\ last = NoOp
    /\ nops = 0

UpdateMulberryConfigRPC ==
    /\ nops < MaxOps
    /\ \E networkName \in ArgNames, newRPC \in {"http://new"}, newWS \in {"ws://new"} :
        LET d == decodeConfigYAML(file)
        IN  Finish("UpdateMulberryConfigRPC", networkName, newRPC, newWS, 0, d,
                   SetEndpoint(d.config, networkName, newRPC, newWS))

UpdateMulberryConfigEVM ==
    /\ nops < MaxOps
    /\ \E networkName \in ArgNames, evmBridgeAddress \in {"0xABC"}, chainID \in {31337} :
        LET d == decodeConfigYAML(file)
        IN  Finish("UpdateMulberryConfigEVM", networkName, evmBridgeAddress, "",
                   chainID, d,
                   SetContract(d.config, networkName, evmBridgeAddress, chainID))

UpdateMulberryJackalConfig ==
    /\ nops < MaxOps
    /\ \E newRPC \in {"http://jkl-new"}, bindingsFactory \in {"jkl1factory"} :
        LET d == decodeConfigYAML(file)
        IN  Finish("UpdateMulberryJackalConfig", "", newRPC, bindingsFactory, 0, d,
                   SetJackalConfig(d.config, newRPC, bindingsFactory))

UpdateMulberryJackalRPC ==
    /\ nops < MaxOps
    /\ \E newRPC \in {"http://jkl-new"}, newGRPC \in {"grpc://jkl-new"} :
        LET d == decodeConfigYAML(file)
        IN  Finish("UpdateMulberryJackalRPC", "", newRPC, newGRPC, 0, d,
                   SetJackalRPC(d.config, newRPC, newGRPC))

\* decodeConfigYAML followed by encodeConfigYAML of what it returned
LoadSave ==
    /\ nops < MaxOps
    /\ LET d == decodeConfigYAML(file)
       IN  Finish("LoadSave", "", "", "", 0, d, d.config)

CfgNext ==
    \/ UpdateMulberryConfigRPC
    \/ UpdateMulberryConfigEVM
    \/ UpdateMulberryJackalConfig
    \/ UpdateMulberryJackalRPC
    \/ LoadSave

\* the configuration file when no configuration operation is under study
CfgIdle ==
    /\ file = NoFile
    /\ prev = NoFile
    /\ last = NoOp
    /\ nops = 0

\* no forge create under study
DepIdle ==
    /\ stdout = <<>>
    /\ exitErr = FALSE
    /\ dpc = "idle"
    /\ dret = [addr |-> <<>>, err |-> "nil"]


(***************************************************************************)
(* Properties of the configuration operations                              *)
(***************************************************************************)
PrevLoad == decodeConfigYAML(prev)

NowLoad == decodeConfigYAML(file)

PrevNets == PrevLoad.config.NetworksConfig

NowNets == NowLoad.config.NetworksConfig

\* text exactly as the encoder prints it: no comment, decimal integers
Emitted(f) ==
    /\ f.layout = "emitted"
    /\ \A i \in 1..Len(f.networks) : f.networks[i].ChainID \in DecimalTexts

\* C1: after a successful UpdateMulberryConfigEVM(path, N, addr, chainID) on a
\* document that has an entry named N, loading the file gives the first entry
\* named N with Contract = addr and ChainID = chainID and its Name, RPC and WS
\* as before; every other entry (content and position) and the counterpart
\* section are as before.
C1_UpdateEVMFrame ==
    (/\ last.op = "UpdateMulberryConfigEVM"
     /\ last.err = "nil"
     /\ FirstMatch(PrevNets, last.name) # 0)
    => LET i == FirstMatch(PrevNets, last.name)
       IN  /\ NowLoad.err = "nil"
           /\ Len(NowNets) = Len(PrevNets)
           /\ NowNets[i].Contract = last.s1
           /\ NowNets[i].ChainID = last.n
           /\ NowNets[i].Name = PrevNets[i].Name
           /\ NowNets[i].RPC = PrevNets[i].RPC
           /\ NowNets[i].WS = PrevNets[i].WS
           /\ \A j \in 1..Len(PrevNets) : j # i => NowNets[j] = PrevNets[j]
           /\ NowLoad.config.JackalConfig = PrevLoad.config.JackalConfig

\* C1 happens: the update rewrote the second of two entries
C1_Witness ==
    /\ last.op = "UpdateMulberryConfigEVM"
    /\ last.err = "nil"
    /\ Len(PrevNets) = 2
    /\ FirstMatch(PrevNets, last.name) = 2
    /\ NowNets[2].Contract = "0xABC"
    /\ PrevNets[2].Contract = ""

C20_CounterpartFrame ==
    (/\ last.op \in {"UpdateMulberryJackalRPC", "UpdateMulberryJackalConfig"}
     /\ last.err = "nil")
    => LET was == PrevLoad.config.JackalConfig
           now == NowLoad.config.JackalConfig
       IN  /\ NowLoad.err = "nil"
           /\ NowNets = PrevNets
           /\ now.RPC = last.s1
           /\ last.op = "UpdateMulberryJackalRPC"
                  => (now.GRPC = last.s2 /\ now.Contract = was.Contract)
           /\ last.op = "UpdateMulberryJackalConfig"
                  => (now.Contract = last.s2 /\ now.GRPC = was.GRPC)

\* C20 happens: the endpoints of the counterpart were replaced in a document
\* of two entries whose counterpart contract had been set before
C20_Witness ==
    /\ last.op = "UpdateMulberryJackalRPC"
    /\ last.err = "nil"
    /\ Len(PrevNets) = 2
    /\ PrevLoad.config.JackalConfig.Contract = "jkl1factory"
    /\ NowLoad.config.JackalConfig =
          [RPC |-> "http://jkl-new", GRPC |-> "grpc://jkl-new",
           Contract |-> "jkl1factory"]

\* the entries of nets named name, by position
Named(nets, name) == {i \in 1..Len(nets) : nets[i].Name = name}

\* C21: when several entries carry the name passed to UpdateMulberryConfigRPC
\* or UpdateMulberryConfigEVM and the call returns nil, the first of them in
\* document order holds the arguments (RPC and WS, respectively Contract and
\* ChainID) and every later entry of that name is what it loaded to before.
C21_FirstOfSeveral ==
    (/\ last.op \in {"UpdateMulberryConfigRPC", "UpdateMulberryConfigEVM"}
     /\ last.err = "nil"
     /\ Cardinality(Named(PrevNets, last.name)) >= 2)
    => LET same == Named(PrevNets, last.name)
           first == CHOOSE i \in same : \A j \in same : i <= j
       IN  /\ NowLoad.err = "nil"
           /\ Len(NowNets) = Len(PrevNets)
           /\ last.op = "UpdateMulberryConfigRPC"
                  => (NowNets[first].RPC = last.s1 /\ NowNets[first].WS = last.s2)
           /\ last.op = "UpdateMulberryConfigEVM"
                  => (/\ NowNets[first].Contract = last.s1
                      /\ NowNets[first].ChainID = last.n)
           /\ \A j \in same : j # first => NowNets[j] = PrevNets[j]

\* C21 happens: of two entries named "evm" the first got the new endpoints
\* and the second kept the old ones
C21_Witness ==
    /\ last.op = "UpdateMulberryConfigRPC"
    /\ last.err = "nil"
    /\ last.name = "evm"
    /\ Named(PrevNets, "evm") = {1, 2}
    /\ NowNets[1].RPC = "http://new"
    /\ NowNets[1].WS = "ws://new"
    /\ NowNets[2].RPC = "http://old"
    /\ NowNets[2].WS = "ws://old"

UpdateOps ==
    {"UpdateMulberryConfigRPC", "UpdateMulberryConfigEVM",
     "UpdateMulberryJackalConfig", "UpdateMulberryJackalRPC"}

\* C22: when the file cannot be opened or is not YAML, each of the four
\* update functions returns the error of the load (failed to open,
\* respectively failed to decode) and the file is what it was before the
\* call: not created, not truncated, not rewritten.
C22_LoadFailureKeepsFile ==
    (last.op \in UpdateOps /\ prev.layout \in {"absent", "garbage"})
    => /\ file = prev
       /\ prev.layout = "absent" => last.err = "failed to open config file"
       /\ prev.layout = "garbage" => last.err = "failed to decode config file"

\* C22 happens: UpdateMulberryConfigEVM on text that is not YAML
C22_Witness ==
    /\ last.op = "UpdateMulberryConfigEVM"
    /\ last.name = "evm"
    /\ prev.layout = "garbage"
    /\ last.err = "failed to decode config file"
    /\ file = prev

(***************************************************************************)
(* Ethereum.ForgeCreate: recovering the address from forge's stdout.       *)
(*                                                                         *)
(* A line is a sequence of atoms: " " is one whitespace character, every   *)
(* other atom is a run of non-blank characters.  Adjacent non-blank atoms  *)
(* form one word ("to:" followed by "0xA" is the text to:0xA).  A string   *)
(* the function returns is a sequence of atoms too; <<>> is "".            *)
(***************************************************************************)
\* the literal "Deployed to:"
DeployedTo == <<"Deployed", " ", "to:">>

\* strings.Contains(line, prefix)
HasInfix(line, prefix) ==
    \E k \in 1..Len(line) :
        /\ k + Len(prefix) - 1 <= Len(line)
        /\ SubSeq(line, k, k + Len(prefix) - 1) = prefix

\* strings.HasPrefix(line, prefix)
HasPrefix(line, prefix) ==
    /\ Len(line) >= Len(prefix)
    /\ SubSeq(line, 1, Len(prefix)) = prefix

RECURSIVE FieldsAcc(_, _, _)
FieldsAcc(rest, cur, acc) ==
    IF rest = <<>>
    THEN IF cur = <<>> THEN acc ELSE Append(acc, cur)
    ELSE IF Head(rest) = " "
         THEN FieldsAcc(Tail(rest), <<>>, IF cur = <<>> THEN acc ELSE Append(acc, cur))
         ELSE FieldsAcc(Tail(rest), Append(cur, Head(rest)), acc)

\* strings.Fields(line): the maximal runs of non-blank characters
Fields(line) == FieldsAcc(line, <<>>, <<>>)

AddressTokenSecond(parts) == parts[2]

\* parts[2], zero-based
AddressToken(parts) == parts[3]

NotFound == "could not find deployed contract address in output"

\* the scan given up at the first line that has the prefix and no third word
RECURSIVE ScanLinesNoSkip(_)
ScanLinesNoSkip(lines) ==
    IF lines = <<>>
    THEN [addr |-> <<>>, err |-> NotFound]
    ELSE IF HasPrefix(Head(lines), DeployedTo)
         THEN IF Len(Fields(Head(lines))) > 2
              THEN [addr |-> AddressToken(Fields(Head(lines))), err |-> "nil"]
              ELSE [addr |-> <<>>, err |-> NotFound]
         ELSE ScanLinesNoSkip(Tail(lines))

\* the loop over strings.Split(output, "\n") and the final error
RECURSIVE ScanLines(_)
ScanLines(lines) ==
    IF lines = <<>>
    THEN [addr |-> <<>>, err |-> NotFound]
    ELSE IF HasPrefix(Head(lines), DeployedTo) /\ Len(Fields(Head(lines))) > 2
         THEN [addr |-> AddressToken(Fields(Head(lines))), err |-> "nil"]
         ELSE ScanLines(Tail(lines))

LineHeads == {DeployedTo, <<" ">> \o DeployedTo, <<"Transaction", " ", "hash:">>}

LineTails ==
    {<<>>, <<" ">>, <<"0xA">>, <<" ", "0xA">>, <<" ", "0xB">>, <<" ", " ", "0xA">>,
     <<" ", "0xA", " ", "0xB">>, <<" ", "0xA", "0xB">>, <<" ", "0x12">>}

Lines == {h \o t : h \in LineHeads, t \in LineTails}

Outputs == UNION {[1..n -> Lines] : n \in 0..MaxLines}

DepInit ==
    /\ stdout \in Outputs
    /\ exitErr \in BOOLEAN
    /\ dpc = "run"
    /\ dret = [addr |-> <<>>, err |-> "nil"]

\* the scan of stdout whatever cmd.Run() returned
ForgeCreateScanFirst(failed, out) ==
    IF ScanLines(out).err = "nil" \/ ~failed
    THEN ScanLines(out)
    ELSE [addr |-> <<>>, err |-> "exit status 1"]

\* what ForgeCreate returns: "", err when cmd.Run() failed, otherwise the
\* result of the scan of the captured stdout
ForgeCreateReturn(failed, out) ==
    IF failed
    THEN [addr |-> <<>>, err |-> "exit status 1"]
    ELSE ScanLines(out)

\* cmd.Run(), then either the early return or the scan of the captured stdout
ForgeCreate ==
    /\ dpc = "run"
    /\ dpc' = "done"
    /\ dret' = ForgeCreateReturn(exitErr, stdout)
    /\ UNCHANGED <<stdout, exitErr, cfgVars, suiteVars, raceVars, stopVars, connVars,
                   ordVars>>

(***************************************************************************)
(* Properties of the address extraction                                    *)
(***************************************************************************)
Addresses == {"0xA", "0xB"}

\* the line "Deployed to: A"
DeployedLine(A) == <<"Deployed", " ", "to:", " ", A>>

\* the line starts with the text "Deployed to:"
BeginsDeployedTo(line) ==
    /\ Len(line) >= 3
    /\ line[1] = "Deployed"
    /\ line[2] = " "
    /\ line[3] = "to:"

\* C4 as stated: with exit status zero, a line "Deployed to: A" anywhere in
\* stdout makes ForgeCreate return A, whatever the other lines are.
C4_AnyDeployedLine ==
    (dpc = "done" /\ ~exitErr)
    => \A i \in 1..Len(stdout) : \A A \in Addresses :
          stdout[i] = DeployedLine(A) => dret = [addr |-> <<A>>, err |-> "nil"]

\* C4 as amended: with exit status zero, a line "Deployed to: A" makes
\* ForgeCreate return A when no earlier line begins with "Deployed to:" and
\* has at least three words.
C4_FirstDeployedLine ==
    (dpc = "done" /\ ~exitErr)
    => \A i \in 1..Len(stdout) : \A A \in Addresses :
          (/\ stdout[i] = DeployedLine(A)
           /\ \A j \in 1..(i - 1) :
                 ~(BeginsDeployedTo(stdout[j]) /\ Len(Fields(stdout[j])) > 2))
          => dret = [addr |-> <<A>>, err |-> "nil"]

\* C4 happens: the address comes from the second line, after a line that
\* begins with "Deployed to:" and has no third word
C4_Witness ==
    /\ dpc = "done"
    /\ ~exitErr
    /\ Len(stdout) = 2
    /\ stdout[1] = <<"Deployed", " ", "to:", "0xA">>
    /\ stdout[2] = DeployedLine("0xB")
    /\ dret = [addr |-> <<"0xB">>, err |-> "nil"]

\* C5: with exit status zero and no line of stdout beginning with
\* "Deployed to:", ForgeCreate returns the empty string and the
\* address-not-found error.
C5_NoPrefixNotFound ==
    (/\ dpc = "done"
     /\ ~exitErr
     /\ \A i \in 1..Len(stdout) : ~BeginsDeployedTo(stdout[i]))
    => dret = [addr |-> <<>>, err |-> NotFound]

\* C5 happens: two lines, neither beginning with the prefix, one of them
\* carrying it after a blank
C5_Witness ==
    /\ dpc = "done"
    /\ ~exitErr
    /\ Len(stdout) = 2
    /\ stdout[1] = <<" ", "Deployed", " ", "to:", " ", "0xA">>
    /\ ~BeginsDeployedTo(stdout[2])
    /\ dret.err = NotFound

\* the lines that begin with "Deployed to:" and have at least three words
Qualifying ==
    {i \in 1..Len(stdout) :
        BeginsDeployedTo(stdout[i]) /\ Len(Fields(stdout[i])) >= 3}

\* C24: with exit status zero ForgeCreate returns the third word of the first
\* line, in the order of stdout, that begins with "Deployed to:" and has at
\* least three words: lines before it that have the prefix and fewer words
\* are passed over, later qualifying lines do not count, and with no
\* qualifying line the result is the address-not-found error.
C24_FirstQualifyingLine ==
    (dpc = "done" /\ ~exitErr)
    => IF Qualifying = {}
       THEN dret = [addr |-> <<>>, err |-> NotFound]
       ELSE LET i == CHOOSE k \in Qualifying : \A j \in Qualifying : k <= j
            IN  dret = [addr |-> Fields(stdout[i])[3], err |-> "nil"]

\* C24 happens: the line "Deployed to:" alone was passed over and the address
\* is the third of the four words of the next line
C24_Witness ==
    /\ dpc = "done"
    /\ ~exitErr
    /\ Len(stdout) = 2
    /\ stdout[1] = DeployedTo
    /\ stdout[2] = <<"Deployed", " ", "to:", " ", "0xA", " ", "0xB">>
    /\ dret = [addr |-> <<"0xA">>, err |-> "nil"]

\* C18: when cmd.Run() returned an error (forge exited with a nonzero
\* status), ForgeCreate returns that error and the empty string, whatever
\* stdout holds, a "Deployed to:" line included.
C18_ExitErrorNoAddress ==
    (dpc = "done" /\ exitErr)
    => /\ dret.addr = <<>>
       /\ dret.err = "exit status 1"

\* C18 happens: forge printed "Deployed to: 0xA" and exited nonzero
C18_Witness ==
    /\ dpc = "done"
    /\ exitErr
    /\ Len(stdout) >= 1
    /\ stdout[1] = DeployedLine("0xA")
    /\ dret.addr = <<>>
    /\ dret.err # "nil"

(***************************************************************************)
(* The suite: the test goroutine and the interrupt goroutine.              *)
(*                                                                         *)
(* One run executes one test method.  TestDummy runs SetupSuite            *)
(* (outpost_test.go) and then its "dummy" step; TestJackalEVMBridge        *)
(* installs the interrupt goroutine, runs SetupJackalEVMBridgeSuite and    *)
(* then its own calls (jackal_evm_test.go).  pc names the next call.       *)
(***************************************************************************)
DummyFlow ==
    <<"pull", "run", "logs", "exec", "fund1", "fund2", "fund3", "script", "dummy", "end">>

BridgeFlow ==
    <<"notify", "bpull", "brun", "bsetid", "fundB", "connect", "sendTx", "create",
      "ws", "send", "forge", "end">>

HandlerSites == {"killall", "stopRelay", "stopImage", "sleep", "exit"}

Sites == {DummyFlow[i] : i \in 1..Len(DummyFlow)}
            \cup {BridgeFlow[i] : i \in 1..Len(BridgeFlow)}
            \cup HandlerSites

\* the call that follows p in the text of the test
NextPc(p) ==
    LET f == IF \E i \in 1..Len(DummyFlow) : DummyFlow[i] = p
             THEN DummyFlow ELSE BridgeFlow
        i == CHOOSE k \in 1..Len(f) : f[k] = p
    IN  f[i + 1]

\* a failed call issued again
PcAfterFailRetry(p) == p

\* where the test goroutine is after the call at p failed: log.Fatalf ends
\* the process, a failed Require ends the test, and the error of ForgeScript
\* is only printed
PcAfterFail(p) ==
    CASE p \in {"fund1", "fund2", "fund3", "fundB"} -> "failnow"
      [] p = "script" -> NextPc(p)
      [] OTHER -> "fatal"

Terminal == {"fatal", "failnow", "end"}

ExitKind(q) == IF q = "end" THEN "finished" ELSE q

\* the suite state a call completes
Enters(p) ==
    CASE p \in {"pull", "bpull"} -> "ImagePulled"
      [] p \in {"run", "brun"} -> "ContainerRunning"
      [] p \in {"fund3", "sendTx"} -> "AccountsFunded"
      [] p \in {"script", "create"} -> "ContractsDeployed"
      [] p = "send" -> "EventsObserved"
      [] OTHER -> ""

Count(p) == [calls EXCEPT ![p] = IF @ < CallCap THEN @ + 1 ELSE @]

FundSites == {"fund1", "fund2", "fund3"}

NoUser == [key |-> "nil", err |-> "nil", transfer |-> ""]

\* the key returned although FundUser failed
CreateAndFundUserKeepKey(genOk, sendOk) ==
    IF ~genOk
    THEN [key |-> "nil", err |-> "generate key failed", transfer |-> ""]
    ELSE IF ~sendOk
         THEN [key |-> "key", err |-> "nil", transfer |-> "failed"]
         ELSE [key |-> "key", err |-> "nil", transfer |-> "ok"]

\* CreateAndFundUser(): GenerateKey, then FundUser, which is SendEth of
\* StartingEthBalance from e.Faucet; transfer records what cast send did
CreateAndFundUserReturn(genOk, sendOk) ==
    IF ~genOk
    THEN [key |-> "nil", err |-> "generate key failed", transfer |-> ""]
    ELSE IF ~sendOk
         THEN [key |-> "nil", err |-> "failed to send eth", transfer |-> "failed"]
         ELSE [key |-> "key", err |-> "nil", transfer |-> "ok"]

\* users after the call at p answered ok: Require().NoError(err) passes
\* exactly when CreateAndFundUser returned a nil error
UsersAfter(p, ok) ==
    IF p \in FundSites
    THEN {[users EXCEPT ![p] = CreateAndFundUserReturn(g, t)] :
             <<g, t>> \in {x \in BOOLEAN \X BOOLEAN :
                 (CreateAndFundUserReturn(x[1], x[2]).err = "nil") = ok}}
    ELSE {users}

\* the strings ForgeCreate can return with a nil error
DeployedStrings ==
    {ForgeCreateReturn(FALSE, out).addr :
        out \in {o \in Outputs : ForgeCreateReturn(FALSE, o).err = "nil"}}

\* the global assigned again by the "forge" subtest
ContractAddressReset(p, ok) ==
    IF p = "create" /\ ok THEN DeployedStrings
    ELSE IF p = "forge" THEN {<<>>}
    ELSE {contractAddress}

\* ContractAddress after the call at p: the one assignment of the test,
\* ContractAddress = returnedContractAddr, follows a ForgeCreate without error
ContractAddressAfter(p, ok) ==
    IF p = "create" /\ ok THEN DeployedStrings ELSE {contractAddress}

\* one call of the test goroutine; results are the answers the call can get
Call(p, results) ==
    /\ alive
    /\ pc = p
    /\ \E ok \in results :
          LET q == IF ok THEN NextPc(p) ELSE PcAfterFail(p)
          IN  /\ pc' = q
              /\ alive' = (q \notin Terminal)
              /\ exitBy' = IF q \in Terminal THEN ExitKind(q) ELSE exitBy
              /\ failedAt' = IF ok \/ failedAt # "" THEN failedAt ELSE p
              /\ entered' = IF q = NextPc(p) /\ Enters(p) # ""
                            THEN Append(entered, Enters(p))
                            ELSE entered
              /\ relay' = IF ok /\ p \in {"run", "brun"} THEN "running" ELSE relay
              /\ \E u \in UsersAfter(p, ok) : users' = u
              /\ \E a \in ContractAddressAfter(p, ok) : contractAddress' = a
    /\ calls' = Count(p)
    /\ ranAfterFail' = (ranAfterFail \/ failedAt # "")
    /\ containerID' = IF p = "bsetid" THEN "relay" ELSE containerID
    /\ handler' = IF p = "notify" THEN "waiting" ELSE handler
    /\ sp' = IF p = "logs" THEN "opening" ELSE sp
    /\ sentTo' = IF p = "send" THEN sentTo \cup {contractAddress} ELSE sentTo
    /\ UNCHANGED <<sig, canine, cleanupLog, cfgVars, depVars, raceVars, stopVars,
                   connVars,
                   ordVars>>

CanineIDs == {"canine1", "canine2"}

SuiteInit ==
    /\ pc \in {"pull", "notify"}
    /\ alive = TRUE
    /\ exitBy = ""
    /\ handler = "none"
    /\ sig = 0
    /\ relay = "none"
    /\ containerID = ""
    /\ canine \in SUBSET CanineIDs
    /\ calls = [s \in Sites |-> 0]
    /\ failedAt = ""
    /\ ranAfterFail = FALSE
    /\ entered = <<"Idle">>
    /\ cleanupLog = <<>>
    /\ sp = "off"
    /\ contractAddress = <<>>
    /\ sentTo = {}
    /\ users = [p \in FundSites |-> NoUser]

\* SetupSuite and TestDummy
PullMulberryImage ==
    /\ pc = "pull"
    /\ Call("pull", BOOLEAN)

RunContainerWithConfig ==
    /\ pc = "run"
    /\ Call("run", BOOLEAN)

\* go e2esuite.StreamContainerLogs(containerID)
StartLogStream ==
    /\ pc = "logs"
    /\ Call("logs", {TRUE})

ExecCommandInContainer ==
    /\ pc = "exec"
    /\ Call("exec", BOOLEAN)

CreateAndFundUserKey ==
    /\ pc = "fund1"
    /\ Call("fund1", BOOLEAN)

CreateAndFundUserOperator ==
    /\ pc = "fund2"
    /\ Call("fund2", BOOLEAN)

CreateAndFundUserDeployer ==
    /\ pc = "fund3"
    /\ Call("fund3", BOOLEAN)

ForgeScript ==
    /\ pc = "script"
    /\ Call("script", BOOLEAN)

DummyStep ==
    /\ pc = "dummy"
    /\ Call("dummy", {TRUE})

\* TestJackalEVMBridge
SignalNotify ==
    /\ pc = "notify"
    /\ Call("notify", {TRUE})

SetupPullImage ==
    /\ pc = "bpull"
    /\ Call("bpull", BOOLEAN)

SetupRunContainer ==
    /\ pc = "brun"
    /\ Call("brun", BOOLEAN)

SetupStoreContainerID ==
    /\ pc = "bsetid"
    /\ Call("bsetid", {TRUE})

FundAddressChainB ==
    /\ pc = "fundB"
    /\ Call("fundB", BOOLEAN)

NewEthereum ==
    /\ pc = "connect"
    /\ Call("connect", BOOLEAN)

SendTransaction ==
    /\ pc = "sendTx"
    /\ Call("sendTx", BOOLEAN)

ForgeCreateBridge ==
    /\ pc = "create"
    /\ Call("create", BOOLEAN)

DialWsAndListen ==
    /\ pc = "ws"
    /\ Call("ws", BOOLEAN)

CastSend ==
    /\ pc = "send"
    /\ Call("send", BOOLEAN)

ForgeStepAndSleep ==
    /\ pc = "forge"
    /\ Call("forge", {TRUE})

\* an operating-system interrupt: queued in c when Notify has been called and
\* c has room, dropped when c is full, fatal when no handler is installed
Interrupt ==
    /\ alive
    /\ IF handler = "none"
       THEN /\ alive' = FALSE
            /\ exitBy' = "signal"
            /\ sig' = sig
       ELSE /\ sig = 0
            /\ sig' = 1
            /\ UNCHANGED <<alive, exitBy>>
    /\ UNCHANGED <<pc, handler, relay, containerID, canine, calls, failedAt,
                   ranAfterFail, entered, cleanupLog, sp, contractAddress, sentTo,
                   users, cfgVars, depVars, raceVars, stopVars, connVars,
                   ordVars>>

\* <-c in the interrupt goroutine
ReceiveSignal ==
    /\ alive
    /\ handler = "waiting"
    /\ sig = 1
    /\ sig' = 0
    /\ handler' = "killall"
    /\ UNCHANGED <<pc, alive, exitBy, relay, containerID, canine, calls, failedAt,
                   ranAfterFail, entered, cleanupLog, sp, contractAddress, sentTo,
                   users, cfgVars, depVars, raceVars, stopVars, connVars,
                   ordVars>>

\* exit before the delay
NextCleanupNoWait(h) ==
    CASE h = "killall" -> "stopRelay"
      [] h = "stopRelay" -> "stopImage"
      [] h = "stopImage" -> "exit"
      [] h = "sleep" -> "exit"

\* the statements of cleanJackalEVMBridgeSuite, in order
NextCleanup(h) ==
    CASE h = "killall" -> "stopRelay"
      [] h = "stopRelay" -> "stopImage"
      [] h = "stopImage" -> "sleep"
      [] h = "sleep" -> "exit"

\* one statement of cleanJackalEVMBridgeSuite; its result is discarded
Cleanup(h) ==
    /\ alive
    /\ handler = h
    /\ handler' = NextCleanup(h)
    /\ calls' = Count(h)
    /\ cleanupLog' = Append(cleanupLog, h)
    /\ UNCHANGED <<pc, alive, exitBy, sig, containerID, failedAt, ranAfterFail,
                   entered, sp, contractAddress, sentTo, users, cfgVars, depVars,
                   raceVars, stopVars, connVars,
                   ordVars>>

\* eth.ExecuteCommand("killall", []string{"anvil"})
KillallAnvil ==
    /\ Cleanup("killall")
    /\ UNCHANGED <<relay, canine>>

\* e2esuite.StopContainer(jackalEVMContainerID): ContainerStop stops the
\* container or fails; StopContainer returns nil either way
StopContainer ==
    /\ Cleanup("stopRelay")
    /\ \E stopped \in BOOLEAN :
          relay' = IF stopped /\ containerID = "relay" /\ relay = "running"
                   THEN "stopped" ELSE relay
    /\ UNCHANGED canine

\* e2esuite.StopContainerByImage("biphan4/canine-evm:0.0.0"): ContainerStop is
\* called for every listed container of that image, each result discarded
StopContainerByImage ==
    /\ Cleanup("stopImage")
    /\ \E stopped \in SUBSET canine : canine' = canine \ stopped
    /\ UNCHANGED relay

\* time.Sleep(10 * time.Second)
CleanupSleep ==
    /\ Cleanup("sleep")
    /\ UNCHANGED <<relay, canine>>

\* os.Exit(1)
CleanupExit ==
    /\ alive
    /\ handler = "exit"
    /\ handler' = "exited"
    /\ alive' = FALSE
    /\ exitBy' = "cleanup"
    /\ calls' = Count("exit")
    /\ cleanupLog' = Append(cleanupLog, "exit")
    /\ UNCHANGED <<pc, sig, relay, containerID, canine, failedAt, ranAfterFail,
                   entered, sp, contractAddress, sentTo, users, cfgVars, depVars,
                   raceVars, stopVars, connVars,
                   ordVars>>

\* the stream ended at once, whatever the container does
StreamAtEndAlways(r) == TRUE

\* with Follow: true the stream of a container reaches its end when the
\* container is no longer running
StreamAtEnd(r) == r # "running"

\* a step of the log-streaming goroutine leaves the rest of the suite alone
StreamTo(q) ==
    /\ alive
    /\ sp' = q
    /\ UNCHANGED <<pc, alive, exitBy, handler, sig, relay, containerID, canine,
                   calls, failedAt, ranAfterFail, entered, cleanupLog,
                   contractAddress, sentTo, users, cfgVars, depVars, raceVars,
                   stopVars, connVars,
                   ordVars>>

\* client.NewClientWithOpts and cli.ContainerLogs: either returns an error
\* and ends the goroutine, or the copy starts
StreamOpen ==
    /\ sp = "opening"
    /\ \E ok \in BOOLEAN : StreamTo(IF ok THEN "copying" ELSE "failed")

\* stdcopy.StdCopy reaches the end of the stream and returns nil
StreamEnd ==
    /\ sp = "copying"
    /\ StreamAtEnd(relay)
    /\ StreamTo("done")

\* stdcopy.StdCopy returns an error of the stream or of the log file
StreamCopyFails ==
    /\ sp = "copying"
    /\ StreamTo("failed")

StreamStep ==
    \/ StreamOpen
    \/ StreamEnd
    \/ StreamCopyFails

\* the container ends by itself: its command is sleep 3600
ContainerExits ==
    /\ relay = "running"
    /\ relay' = "stopped"
    /\ UNCHANGED <<pc, alive, exitBy, handler, sig, containerID, canine, calls,
                   failedAt, ranAfterFail, entered, cleanupLog, sp,
                   contractAddress, sentTo, users, cfgVars, depVars, raceVars,
                   stopVars, connVars,
                   ordVars>>

HandlerStep ==
    \/ ReceiveSignal
    \/ KillallAnvil
    \/ StopContainer
    \/ StopContainerByImage
    \/ CleanupSleep
    \/ CleanupExit

SuiteStep ==
    \/ PullMulberryImage
    \/ RunContainerWithConfig
    \/ StartLogStream
    \/ ExecCommandInContainer
    \/ CreateAndFundUserKey
    \/ CreateAndFundUserOperator
    \/ CreateAndFundUserDeployer
    \/ ForgeScript
    \/ DummyStep
    \/ SignalNotify
    \/ SetupPullImage
    \/ SetupRunContainer
    \/ SetupStoreContainerID
    \/ FundAddressChainB
    \/ NewEthereum
    \/ SendTransaction
    \/ ForgeCreateBridge
    \/ DialWsAndListen
    \/ CastSend
    \/ ForgeStepAndSleep

\* no suite run under study
SuiteIdle ==
    /\ pc = "end"
    /\ alive = FALSE
    /\ exitBy = ""
    /\ handler = "none"
    /\ sig = 0
    /\ relay = "none"
    /\ containerID = ""
    /\ canine = {}
    /\ calls = [s \in Sites |-> 0]
    /\ failedAt = ""
    /\ ranAfterFail = FALSE
    /\ entered = <<"Idle">>
    /\ cleanupLog = <<>>
    /\ sp = "off"
    /\ contractAddress = <<>>
    /\ sentTo = {}
    /\ users = [p \in FundSites |-> NoUser]

(***************************************************************************)
(* Two update calls on one path at the same time.                          *)
(*                                                                         *)
(* No update function takes a lock, so the steps of two calls interleave.  *)
(* A call is three steps on the file: the load (os.Open and Decode), then  *)
(* os.Create, which truncates the file and gives the call a descriptor of  *)
(* its own at offset 0, then Encode, which writes the text at that offset. *)
(* The mutation in between touches only the config variable of the call.   *)
(***************************************************************************)
Writers == {1, 2}

Truncated == [layout |-> "empty", networks |-> <<>>, jackal |-> ZeroJackal]

Torn == [layout |-> "torn", networks |-> <<>>, jackal |-> ZeroJackal]

\* the update a writer runs, with its arguments
WriterOps ==
    {[op |-> "UpdateMulberryConfigRPC", name |-> "evm"],
     [op |-> "UpdateMulberryConfigEVM", name |-> "evm"],
     [op |-> "UpdateMulberryJackalConfig", name |-> ""],
     [op |-> "UpdateMulberryJackalRPC", name |-> ""]}

\* the in-memory mutation of the update o
Mutate(o, config) ==
    CASE o.op = "UpdateMulberryConfigRPC" ->
            SetEndpoint(config, o.name, "http://new", "ws://new")
      [] o.op = "UpdateMulberryConfigEVM" ->
            SetContract(config, o.name, "0xABC", 31337)
      [] o.op = "UpdateMulberryJackalConfig" ->
            SetJackalConfig(config, "http://jkl-new", "jkl1factory")
      [] o.op = "UpdateMulberryJackalRPC" ->
            SetJackalRPC(config, "http://jkl-new", "grpc://jkl-new")

\* os.Create(configPath) that succeeds: the file is truncated
Create(f) == Truncated

\* Encode on a descriptor at offset 0 of a file that holds old: the text when
\* the file is empty or holds the same text; otherwise the text replaces the
\* beginning of old, and the end of old stays when old is the longer one
WriteAtStart(old, text) ==
    IF old.layout = "empty" \/ old = text THEN {text} ELSE {text, Torn}

RaceInit ==
    /\ file \in InitFiles
    /\ prev = NoFile
    /\ last = NoOp
    /\ nops = 0
    /\ wpc = [w \in Writers |-> "load"]
    /\ wop \in [Writers -> WriterOps]
    /\ wmem = [w \in Writers |-> ZeroConfig]
    /\ werr = [w \in Writers |-> "nil"]
    /\ overlapped = FALSE
    /\ lastSave = 0

\* the load and the mutation; a load that fails ends the call
WriterLoad ==
    \E w \in Writers :
        /\ wpc[w] = "load"
        /\ LET d == decodeConfigYAML(file)
           IN  IF d.err # "nil"
               THEN /\ wpc' = [wpc EXCEPT ![w] = "done"]
                    /\ werr' = [werr EXCEPT ![w] = d.err]
                    /\ wmem' = wmem
               ELSE /\ wpc' = [wpc EXCEPT ![w] = "create"]
                    /\ wmem' = [wmem EXCEPT ![w] = Mutate(wop[w], d.config)]
                    /\ werr' = werr
        /\ UNCHANGED <<file, wop, overlapped, lastSave, prev, last, nops, depVars,
                       suiteVars, stopVars, connVars,
                   ordVars>>

\* os.Create: it fails and ends the call, or truncates the file
WriterCreate ==
    \E w \in Writers, io \in CreateOutcomes :
        /\ wpc[w] = "create"
        /\ IF io = "ok"
           THEN /\ file' = Create(file)
                /\ wpc' = [wpc EXCEPT ![w] = "write"]
                /\ overlapped' = (overlapped \/ \E v \in Writers : wpc[v] = "write")
                /\ werr' = werr
           ELSE /\ file' = file
                /\ wpc' = [wpc EXCEPT ![w] = "done"]
                /\ overlapped' = overlapped
                /\ werr' = [werr EXCEPT ![w] = io]
        /\ UNCHANGED <<wop, wmem, lastSave, prev, last, nops, depVars, suiteVars,
                       stopVars, connVars,
                   ordVars>>

\* Encode and the deferred Close
WriterWrite ==
    \E w \in Writers :
        /\ wpc[w] = "write"
        /\ file' \in WriteAtStart(file, EncodeText(wmem[w]))
        /\ wpc' = [wpc EXCEPT ![w] = "done"]
        /\ lastSave' = w
        /\ UNCHANGED <<wop, wmem, werr, overlapped, prev, last, nops, depVars,
                       suiteVars, stopVars, connVars,
                   ordVars>>

\* no concurrent update under study
RaceIdle ==
    /\ wpc = [w \in Writers |-> "done"]
    /\ wop = [w \in Writers |-> [op |-> "UpdateMulberryJackalRPC", name |-> ""]]
    /\ wmem = [w \in Writers |-> ZeroConfig]
    /\ werr = [w \in Writers |-> "nil"]
    /\ overlapped = FALSE
    /\ lastSave = 0

(***************************************************************************)
(* StopContainerByImage as a function of what the docker daemon answers.   *)
(*                                                                         *)
(* A listed container is its ID and the image it was created from.         *)
(***************************************************************************)
Images == {"biphan4/canine-evm:0.0.0", "biphan4/mulberry:0.0.6"}

ContainerLists ==
    UNION {[1..n -> [ID : 1..MaxContainers, Image : Images]] : n \in 0..MaxContainers}

\* ContainerList names every running container once
Listings == {l \in ContainerLists : \A i \in 1..Len(l) : l[i].ID = i}

\* every container taken for one of the image
ImageMatchesAny(c, image) == TRUE

\* c.Image == imageName
ImageMatches(c, image) == c.Image = image

\* the listed containers of the image, in the order of the list
Matching(containers, image) ==
    SelectSeq(containers, LAMBDA c : ImageMatches(c, image))

NoStop == [err |-> "nil", attempted |-> <<>>, stopped |-> {}]

\* the loop given up, with an error, at the first ContainerStop that fails
StopLoopFailFast(containers, image, fails) ==
    LET m == Matching(containers, image)
        bad == {i \in 1..Len(m) : m[i].ID \in fails}
    IN  IF bad = {}
        THEN [err |-> "nil",
              attempted |-> [i \in 1..Len(m) |-> m[i].ID],
              stopped |-> {m[i].ID : i \in 1..Len(m)}]
        ELSE LET k == CHOOSE i \in bad : \A j \in bad : i <= j
             IN  [err |-> "failed to stop container",
                  attempted |-> [i \in 1..k |-> m[i].ID],
                  stopped |-> {m[i].ID : i \in 1..(k - 1)}]

\* the loop over the list: ContainerStop for every container of the image,
\* its result discarded, then return nil; fails are the containers whose
\* ContainerStop fails
StopLoop(containers, image, fails) ==
    LET m == Matching(containers, image)
    IN  [err |-> "nil",
         attempted |-> [i \in 1..Len(m) |-> m[i].ID],
         stopped |-> {m[i].ID : i \in 1..Len(m)} \ fails]

\* StopContainerByImage(image): the two early returns, then the loop
StopContainerByImageReturn(cli, lst, containers, image, fails) ==
    IF ~cli THEN [NoStop EXCEPT !.err = "failed to create Docker client"]
    ELSE IF ~lst THEN [NoStop EXCEPT !.err = "failed to list Docker containers"]
    ELSE StopLoop(containers, image, fails)

StopInit ==
    /\ listed \in Listings
    /\ imageName \in Images
    /\ cliOk \in BOOLEAN
    /\ listOk \in BOOLEAN
    /\ stopFails \in SUBSET (1..MaxContainers)
    /\ spc = "call"
    /\ sret = NoStop

\* one call of StopContainerByImage
StopByImageCall ==
    /\ spc = "call"
    /\ spc' = "done"
    /\ sret' = StopContainerByImageReturn(cliOk, listOk, listed, imageName, stopFails)
    /\ UNCHANGED <<listed, imageName, cliOk, listOk, stopFails, cfgVars, depVars,
                   suiteVars, raceVars, connVars,
                   ordVars>>

\* no call of StopContainerByImage under study
StopIdle ==
    /\ listed = <<>>
    /\ imageName = ""
    /\ cliOk = TRUE
    /\ listOk = TRUE
    /\ stopFails = {}
    /\ spc = "idle"
    /\ sret = NoStop

(***************************************************************************)
(* NewEthereum.                                                            *)
(*                                                                         *)
(* The chain behind an endpoint reports one chain identifier, the same at  *)
(* every query.  A call fails when the dial, the query of the identifier   *)
(* or NewEthAPI fails.                                                     *)
(***************************************************************************)
Endpoints == {"http://127.0.0.1:8545", "http://chain-b:8545"}

Credentials == {"faucetA", "faucetB"}

ChainIDs == {1, 31337}

ConnectOutcomes == {"ok", "dial failed", "chain id query failed", "eth api failed"}

ZeroEthereum == [ChainID |-> 0, RPC |-> "", Faucet |-> ""]

\* the endpoint of the client fixed to the local chain
NewEthereumLocal(ids, rpc, faucet, out) ==
    IF out # "ok"
    THEN [client |-> ZeroEthereum, err |-> out]
    ELSE [client |-> [ChainID |-> ids[rpc], RPC |-> "http://127.0.0.1:8545",
                      Faucet |-> faucet],
          err |-> "nil"]

\* NewEthereum(ctx, rpc, faucet) when the chains report ids and the calls
\* it makes answer out
NewEthereumReturn(ids, rpc, faucet, out) ==
    IF out # "ok"
    THEN [client |-> ZeroEthereum, err |-> out]
    ELSE [client |-> [ChainID |-> ids[rpc], RPC |-> rpc, Faucet |-> faucet],
          err |-> "nil"]

ConnInit ==
    /\ chainOf \in [Endpoints -> ChainIDs]
    /\ clients = <<>>

\* one call of NewEthereum, recorded with its arguments
Connect ==
    /\ Len(clients) < MaxClients
    /\ \E rpc \in Endpoints, faucet \in Credentials, out \in ConnectOutcomes :
          LET r == NewEthereumReturn(chainOf, rpc, faucet, out)
          IN  clients' = Append(clients, [rpc |-> rpc, faucet |-> faucet,
                                          client |-> r.client, err |-> r.err])
    /\ UNCHANGED <<chainOf, cfgVars, depVars, suiteVars, raceVars, stopVars,
                   ordVars>>

\* no call of NewEthereum under study
ConnIdle ==
    /\ chainOf = [e \in Endpoints |-> 1]
    /\ clients = <<>>

(***************************************************************************)
(* The same updates in two orders.                                         *)
(*                                                                         *)
(* Two runs start from one document.  Each makes the same three update     *)
(* calls, one after the other, on a file of its own: an update of the      *)
(* endpoints of network N, an update of the contract of network N and an   *)
(* update of the counterpart.  Run 1 makes them in this order, run 2 in    *)
(* any order.  A run ends at the first call that returns an error.         *)
(***************************************************************************)
Runs == {1, 2}

\* the orders in which the updates of S can be made
Orders(S) ==
    {q \in [1..Cardinality(S) -> S] :
        \A i \in 1..Cardinality(S) : \A j \in 1..Cardinality(S) :
            q[i] = q[j] => i = j}

CounterpartOps == {"UpdateMulberryJackalConfig", "UpdateMulberryJackalRPC"}

\* one update call, from the load to the save: the file after it and the
\* error it returns, when os.Create answers io
Update(f, o, io) ==
    LET d == decodeConfigYAML(f)
    IN  IF d.err # "nil"
        THEN [file |-> f, err |-> d.err]
        ELSE encodeConfigYAML(f, Mutate(o, d.config), io)

OrdInit ==
    \E f \in InitFiles, N \in ArgNames, c \in CounterpartOps :
        LET first == <<[op |-> "UpdateMulberryConfigRPC", name |-> N],
                       [op |-> "UpdateMulberryConfigEVM", name |-> N],
                       [op |-> c, name |-> ""]>>
        IN  /\ runFile = [r \in Runs |-> f]
            /\ runOrder \in {q \in [Runs -> Orders({first[i] : i \in 1..3})] :
                                q[1] = first}
            /\ runAt = [r \in Runs |-> 0]
            /\ runErr = [r \in Runs |-> "nil"]

\* the next update call of a run
UpdateInOrder ==
    \E r \in Runs, io \in CreateOutcomes :
        /\ runErr[r] = "nil"
        /\ runAt[r] < Len(runOrder[r])
        /\ LET u == Update(runFile[r], runOrder[r][runAt[r] + 1], io)
           IN  /\ runFile' = [runFile EXCEPT ![r] = u.file]
               /\ runErr' = [runErr EXCEPT ![r] = u.err]
        /\ runAt' = [runAt EXCEPT ![r] = @ + 1]
        /\ UNCHANGED <<runOrder, cfgVars, depVars, suiteVars, raceVars, stopVars,
                       connVars>>

\* no orders under study
OrdIdle ==
    /\ runFile = [r \in Runs |-> NoFile]
    /\ runOrder = [r \in Runs |-> <<>>]
    /\ runAt = [r \in Runs |-> 0]
    /\ runErr = [r \in Runs |-> "nil"]

(***************************************************************************)
(* Specifications                                                          *)
(***************************************************************************)
\* the configuration operations
Init ==
    /\ CfgInit
    /\ DepIdle
    /\ SuiteIdle
    /\ RaceIdle
    /\ StopIdle
    /\ ConnIdle
    /\ OrdIdle

Next == CfgNext

Spec == Init /\ [][Next]_vars

\* one call of ForgeCreate
DeployInit ==
    /\ DepInit
    /\ CfgIdle
    /\ SuiteIdle
    /\ RaceIdle
    /\ StopIdle
    /\ ConnIdle
    /\ OrdIdle

DeployNext == ForgeCreate

DeploySpec == DeployInit /\ [][DeployNext]_vars

\* one run of the suite
SuiteStart ==
    /\ SuiteInit
    /\ CfgIdle
    /\ DepIdle
    /\ RaceIdle
    /\ StopIdle
    /\ ConnIdle
    /\ OrdIdle

SuiteNext == SuiteStep \/ Interrupt \/ HandlerStep \/ StreamStep \/ ContainerExits

SuiteSpec == SuiteStart /\ [][SuiteNext]_vars

\* the interrupt goroutine is scheduled as long as the process lives; nothing
\* is assumed of the test goroutine
SuiteFair == SuiteSpec /\ WF_vars(HandlerStep)

\* the log-streaming goroutine too is scheduled as long as the process lives
LogFair == SuiteSpec /\ WF_vars(StreamOpen) /\ WF_vars(StreamEnd)

\* two update calls at the same time
RaceStart ==
    /\ RaceInit
    /\ DepIdle
    /\ SuiteIdle
    /\ StopIdle
    /\ ConnIdle
    /\ OrdIdle

RaceNext == WriterLoad \/ WriterCreate \/ WriterWrite

RaceSpec == RaceStart /\ [][RaceNext]_vars

\* one call of StopContainerByImage
StopStart ==
    /\ StopInit
    /\ CfgIdle
    /\ DepIdle
    /\ SuiteIdle
    /\ RaceIdle
    /\ ConnIdle
    /\ OrdIdle

StopNext == StopByImageCall

StopSpec == StopStart /\ [][StopNext]_vars

\* calls of NewEthereum
ConnStart ==
    /\ ConnInit
    /\ CfgIdle
    /\ DepIdle
    /\ SuiteIdle
    /\ RaceIdle
    /\ StopIdle
    /\ OrdIdle

ConnNext == Connect

ConnSpec == ConnStart /\ [][ConnNext]_vars

\* the same updates in two orders
OrdStart ==
    /\ OrdInit
    /\ CfgIdle
    /\ DepIdle
    /\ SuiteIdle
    /\ RaceIdle
    /\ StopIdle
    /\ ConnIdle

OrdNext == UpdateInOrder

OrdSpec == OrdStart /\ [][OrdNext]_vars

(***************************************************************************)
(* Properties of the suite                                                 *)
(***************************************************************************)
SuiteOrder ==
    <<"Idle", "ImagePulled", "ContainerRunning", "AccountsFunded",
      "ContractsDeployed", "ConfigSynced", "RelayStarted", "EventsObserved",
      "TornDown">>

IsPrefix(a, b) ==
    /\ Len(a) <= Len(b)
    /\ \A i \in 1..Len(a) : a[i] = b[i]

\* C6: the suite states are entered only in the order Idle, ImagePulled,
\* ContainerRunning, AccountsFunded, ContractsDeployed, ConfigSynced,
\* RelayStarted, EventsObserved, TornDown, none before its predecessor and
\* none skipped: at every moment the states entered so far are an initial
\* segment of that list.
C6_StatesInOrder == IsPrefix(entered, SuiteOrder)

\* C7: once the call of a suite step has failed, no later suite step is
\* executed in that run.
C7_FailureAborts == ~ranAfterFail

\* C8: within one run every call of a suite step, and every call of the
\* cleanup path, is issued at most once, whether it succeeds or fails.
C8_NoRetry == \A s \in Sites : calls[s] <= 1

\* C8 happens: forge create failed, was not issued again, and the run is over
C8_Witness ==
    /\ ~alive
    /\ exitBy = "fatal"
    /\ failedAt = "create"
    /\ calls["create"] = 1

\* C9: once the process has terminated because the suite completed or because
\* the interrupt was handled, the relay container this run started is no
\* longer running.
C9_RelayDestroyed ==
    (~alive /\ exitBy \in {"finished", "cleanup"}) => relay # "running"

CleanupOrder == <<"stopRelay", "stopImage", "sleep", "exit">>

\* the cleanup steps run so far, the kill of the local chain left out
CleanupSteps == SelectSeq(cleanupLog, LAMBDA x : x # "killall")

CleanupInOrder ==
    /\ IsPrefix(CleanupSteps, CleanupOrder)
    /\ exitBy = "cleanup" => CleanupSteps = CleanupOrder

\* an interrupt has been received by a process that handles it
InterruptReceived ==
    /\ alive
    /\ handler # "none"
    /\ sig = 1 \/ handler # "waiting"

\* C10: the cleanup path stops the relay container, then stops the containers
\* of the second image, then waits, then terminates the process, in this
\* order; and once an interrupt has been received the process terminates,
\* whatever the test goroutine does meanwhile and whether or not the stop
\* attempts succeed.
C10_CleanupRuns == []CleanupInOrder /\ (InterruptReceived ~> ~alive)

\* C10 happens: forge create is in flight, the stop of the relay container
\* failed, and the cleanup path has terminated the process
C10_Witness ==
    /\ ~alive
    /\ exitBy = "cleanup"
    /\ pc = "create"
    /\ relay = "running"
    /\ containerID = "relay"
    /\ cleanupLog = <<"killall", "stopRelay", "stopImage", "sleep", "exit">>

\* the address is one well-formed 20-byte hex string: "0xA" and "0xB" stand
\* for such strings, "0x12" and the text 0xA0xB do not
WellFormed(a) == Len(a) = 1 /\ a[1] \in Addresses

\* C15: the address a deployment returned is checked to be a well-formed
\* 20-byte hex string before it is used: every address CastSend was issued
\* against is well-formed.
C15_AddressValidated == \A a \in sentTo : WellFormed(a)

\* C16: once ContractAddress has been set by a successful deployment, no step
\* of the run changes it.
C16_AddressKept ==
    [][contractAddress # <<>> => contractAddress' = contractAddress]_vars

\* C16 happens: the address was set, used by CastSend, and the run has ended
C16_Witness ==
    /\ contractAddress = <<"0xA">>
    /\ sentTo = {<<"0xA">>}
    /\ pc = "end"
    /\ exitBy = "finished"

\* C17: CreateAndFundUser returns a key only when the transfer from the faucet
\* succeeded, and then with a nil error; when the transfer failed it returns
\* the error of SendEth and no key.
C17_KeyOnlyWhenFunded ==
    \A p \in FundSites :
        /\ users[p].key # "nil" => (users[p].transfer = "ok" /\ users[p].err = "nil")
        /\ users[p].transfer = "failed"
              => (users[p].key = "nil" /\ users[p].err = "failed to send eth")

\* C17 happens: the first call returned a key, the transfer of the second
\* failed and the test ended there
C17_Witness ==
    /\ users["fund1"].key = "key"
    /\ users["fund1"].transfer = "ok"
    /\ users["fund2"].transfer = "failed"
    /\ users["fund2"].key = "nil"
    /\ pc = "failnow"
    /\ failedAt = "fund2"

\* the log-streaming goroutine has started the copy and has not returned
Copying == sp = "copying"

\* the goroutine is over: it returned, or the process is gone
StreamOver == sp \in {"done", "failed"} \/ ~alive

\* the copy ends only by the end of the stream of a container that no longer
\* runs, unless StdCopy returns an error
CopyEndsWithContainer ==
    [][(Copying /\ alive' /\ sp' # "copying")
          => (relay # "running" \/ sp' = "failed")]_vars

AllDone == \A w \in Writers : wpc[w] = "done"

\* C11: when two update calls on one path overlap, the file finally holds
\* exactly the document written by the save that ran last.
C11_LastWriterWins ==
    (AllDone /\ lastSave # 0) => file = EncodeText(wmem[lastSave])

\* when neither call created the file while the other had it open for
\* writing, the file finally holds the text of the save that ran last
LastWriterWinsApart ==
    (AllDone /\ lastSave # 0 /\ ~overlapped) => file = EncodeText(wmem[lastSave])

\* a lost update: both calls returned nil, the file holds the document of
\* writer 2, and the contract address writer 1 set is not in it
LostUpdate ==
    /\ AllDone
    /\ werr = [w \in Writers |-> "nil"]
    /\ lastSave = 2
    /\ wop[1].op = "UpdateMulberryConfigEVM"
    /\ wop[2].op = "UpdateMulberryJackalRPC"
    /\ file = EncodeText(wmem[2])
    /\ Len(file.networks) = 1
    /\ file.networks[1].Name = "evm"
    /\ file.networks[1].Contract = ""

(***************************************************************************)
(* Properties of StopContainerByImage                                      *)
(***************************************************************************)
\* the IDs of the listed containers created from the image
MatchIDs == {listed[i].ID : i \in {k \in 1..Len(listed) : listed[k].Image = imageName}}

\* C13: StopContainerByImage(image), when no running container was created
\* from the image, calls ContainerStop for no container and stops none, and
\* returns nil when the docker client and the list are to be had.
C13_NoMatchNoStop ==
    (spc = "done" /\ MatchIDs = {})
    => /\ sret.attempted = <<>>
       /\ sret.stopped = {}
       /\ (cliOk /\ listOk) => sret.err = "nil"

\* C13 happens: two running containers of the other image, and a nil result
C13_Witness ==
    /\ spc = "done"
    /\ Len(listed) = 2
    /\ MatchIDs = {}
    /\ cliOk
    /\ listOk
    /\ stopFails = {1, 2}
    /\ sret = NoStop

\* C14: when the docker client and the list are to be had,
\* StopContainerByImage calls ContainerStop once for every running container
\* of the image, those after a failed stop included, stops those whose stop
\* does not fail, and returns nil even when stops failed.
C14_BestEffort ==
    (spc = "done" /\ cliOk /\ listOk)
    => /\ sret.err = "nil"
       /\ Len(sret.attempted) = Cardinality(MatchIDs)
       /\ {sret.attempted[i] : i \in 1..Len(sret.attempted)} = MatchIDs
       /\ sret.stopped = MatchIDs \ stopFails

\* C14 happens: the stop of the first of two containers of the image failed,
\* the second was stopped, and the result is nil
C14_Witness ==
    /\ spc = "done"
    /\ cliOk
    /\ listOk
    /\ MatchIDs = {1, 2}
    /\ stopFails = {1}
    /\ sret = [err |-> "nil", attempted |-> <<1, 2>>, stopped |-> {2}]

(***************************************************************************)
(* Properties of NewEthereum                                               *)
(***************************************************************************)
\* the calls that returned a client
Connected == {i \in 1..Len(clients) : clients[i].err = "nil"}

BothRunsDone ==
    \A r \in Runs : runAt[r] = Len(runOrder[r]) /\ runErr[r] = "nil"

\* the document of run r holds the arguments of the three updates: the
\* endpoints, the contract and the chain identifier in the first entry of
\* the name, when there is one, and the two fields of the counterpart update
ReflectsAll(r) ==
    LET doc == decodeConfigYAML(runFile[r]).config
        nets == doc.NetworksConfig
        N == runOrder[1][1].name
        c == runOrder[1][3].op
        same == {i \in 1..Len(nets) : nets[i].Name = N}
    IN  /\ decodeConfigYAML(runFile[r]).err = "nil"
        /\ same # {}
              => LET i == CHOOSE k \in same : \A j \in same : k <= j
                 IN  nets[i] = [Name |-> N, RPC |-> "http://new", WS |-> "ws://new",
                                Contract |-> "0xABC", ChainID |-> 31337]
        /\ doc.JackalConfig.RPC = "http://jkl-new"
        /\ c = "UpdateMulberryJackalConfig" => doc.JackalConfig.Contract = "jkl1factory"
        /\ c = "UpdateMulberryJackalRPC" => doc.JackalConfig.GRPC = "grpc://jkl-new"

\* C23: UpdateMulberryConfigRPC(N, ...), UpdateMulberryConfigEVM(N, ...) and
\* a counterpart update, made one after the other from one document and all
\* returning nil, leave the same file in whatever order they are made, and
\* that file holds the arguments of every one of them.
C23_OrderIrrelevant ==
    BothRunsDone
    => /\ runFile[1] = runFile[2]
       /\ \A r \in Runs : ReflectsAll(r)

\* C23 happens: run 2 made the counterpart update first and the update of the
\* endpoints last, on a document of two entries named "evm", and both runs
\* ended with the same file
C23_Witness ==
    /\ BothRunsDone
    /\ runOrder[2][1].op = "UpdateMulberryJackalRPC"
    /\ runOrder[2][2].op = "UpdateMulberryConfigEVM"
    /\ runOrder[2][3].op = "UpdateMulberryConfigRPC"
    /\ runOrder[2][3].name = "evm"
    /\ Len(runFile[2].networks) = 2
    /\ runFile[2].networks[1].Name = "evm"
    /\ runFile[2].networks[2].Name = "evm"
    /\ runFile[2].networks[1].Contract = "0xABC"
    /\ runFile[2].networks[1].RPC = "http://new"
    /\ runFile[2].networks[2].RPC = "http://old"
    /\ runFile[1] = runFile[2]

====
